---- MODULE Spec2Model ----
(***************************************************************************)
(* State-machine model of the TCM prescription analysis application:       *)
(* the report state of App (App.tsx, the component that starts at line     *)
(* 868), the streaming client analyzePrescriptionWithAI and the helper     *)
(* generateHerbDataWithAI (services/openaiService.ts), the tool dispatch   *)
(* of runGeneration (components/AIChatbot.tsx) and the Supabase wrappers.  *)
(*                                                                         *)
(* Conventions.                                                            *)
(*  - A version key `V${n}` is the tuple <<"V", n>>; the empty string is   *)
(*    <<>>.                                                                *)
(*  - Report text is a sequence of tokens: "x" is text, "z" is text that   *)
(*    ends with '</html>', "w" is text made of white space only, "m" is    *)
(*    the stop marker that handleStopAI appends.                           *)
(*  - A click handler runs as one action, with the effects that React      *)
(*    runs on the state it leaves (the persist effect and the              *)
(*    isReportIncomplete effect).  An async handler is one action up to    *)
(*    its first await and one action per event of the response it reads.   *)
(*    The continuation of a rejected promise is a microtask: it runs       *)
(*    before the next event, which NoMicrotask expresses.                  *)
(*  - The handlers return at once without an AnalysisResult or an API key; *)
(*    the steps below are the calls made with a key configured.            *)
(***************************************************************************)
EXTENDS Integers, Sequences, FiniteSets, TLC

VARIABLES
    view,                 \* ViewMode shown
    analysis,             \* TRUE when an AnalysisResult is held
    aiLoading,
    aiError,              \* "null" or the message shown
    reports,              \* version key -> report text
    reportMeta,           \* version key -> report mode
    activeReportVersion,
    isReportIncomplete,
    abortControllerRef,   \* 0 (null) or the id of the handler that owns it
    streams,              \* handler id -> the handler's locals and position
    nextId,               \* handlers started so far (the last id given out)
    received,             \* content events received so far
    chatGen,              \* the chat generation in flight, or NoChat
    ls,                   \* localStorage: the two report keys
    ev,                   \* the step taken last
    herb,                 \* generateHerbDataWithAI: the call and its outcome
    tool,                 \* runGeneration: the tool loop
    cloud,                \* the Supabase wrappers: the call and its outcome
    calc,                 \* handleStartCalculation: the prescription and its result
    gen,                  \* generateChatStream: the request and what it yields
    bot                   \* AIChatbot: sessions, isLoading and the generation

vars == <<view, analysis, aiLoading, aiError, reports, reportMeta,
          activeReportVersion, isReportIncomplete, abortControllerRef, streams,
          nextId, received, chatGen, ls, ev, herb, tool, cloud, calc, gen, bot>>

restVars == <<herb, tool, cloud, calc, gen, bot>>

appVars == <<view, analysis, aiLoading, aiError, reports, reportMeta,
             activeReportVersion, isReportIncomplete, abortControllerRef, streams,
             nextId, received, chatGen, ls, ev>>

\* ------------------------------------------------------------------ bounds

\* Handlers (handleAskAI, handleContinueAI) started in one behaviour.
MaxStreams == 2
\* Content events received in one behaviour, over all responses.
MaxChunks == 2
\* Tokens of a reply given to generateHerbDataWithAI.
MaxReply == 3
\* Tool calls returned by the chat model in one generation.
MaxCalls == 2
\* Herbs given to one bulkUpsertHerbs call.
MaxHerbs == 201
\* Herb lines of one prescription, and the greatest dosage of a line.
MaxLines == 2
MaxDosage == 3
\* Events (deltas) of one chat response, and the greatest tool-call index.
MaxDeltas == 4
MaxIndex == 1
\* Chat sessions made in one behaviour, stored ones included.
MaxSessions == 4
\* Chat requests started in one behaviour.
MaxRounds == 3

\* ------------------------------------------------------------- report text

Chunks == {"x", "z", "w"}
StopMark == "m"
EmptyKey == <<>>

Max(a, b) == IF a >= b THEN a ELSE b

\* `V${n}`
VKey(n) == <<"V", n>>

\* parseInt(key.replace(/^V/, '')) || 0
VerNum(k) == IF Len(k) = 2 /\ k[1] = "V" THEN k[2] ELSE 0

\* A numbering by the count of the versions, not by the greatest suffix.
CountVer(keys) == Cardinality(keys)

\* existingVersions.reduce((max, key) => Math.max(max, num), 0)
RECURSIVE MaxVer(_)
MaxVer(keys) ==
    IF keys = {} THEN 0
    ELSE LET k == CHOOSE x \in keys : TRUE
         IN Max(VerNum(k), MaxVer(keys \ {k}))

\* sortVersions(keys)[keys.length - 1]: the last key of the ascending sort.
LastSorted(keys) == CHOOSE k \in keys : \A j \in keys : VerNum(j) <= VerNum(k)

\* text.trim() === ''
IsBlankText(t) == \A i \in 1..Len(t) : t[i] = "w"

\* text.trim().endsWith('</html>')
EndsWithHtml(t) ==
    \E i \in 1..Len(t) : t[i] = "z" /\ \A j \in (i+1)..Len(t) : t[j] = "w"

\* !reports[v]
Falsy(r, v) == IF v \in DOMAIN r THEN r[v] = <<>> ELSE TRUE

\* reports[v] || ''
TextOf(r, v) == IF v \in DOMAIN r THEN r[v] ELSE <<>>

\* { ...prev, [v]: t }
Put(r, v, t) == [k \in DOMAIN r \cup {v} |-> IF k = v THEN t ELSE r[k]]

\* delete copy[v]
Without(r, v) == [k \in DOMAIN r \ {v} |-> r[k]]

EmptyMap == [k \in {} |-> <<>>]

\* ------------------------------------------------------------ localStorage

\* getItem returns null for both keys.
Absent == [has |-> FALSE, reports |-> {}, meta |-> {}]

\* JSON.stringify of a string-keyed record: its members.
Stringify(r) == {<<k, r[k]>> : k \in DOMAIN r}

\* JSON.parse of such a text.
Parse(j) == [k \in {p[1] : p \in j} |-> (CHOOSE p \in j : p[1] = k)[2]]

\* The effect on [reports, reportMeta].
PersistEffect(r, m) ==
    IF DOMAIN r # {}
    THEN [has |-> TRUE, reports |-> Stringify(r), meta |-> Stringify(m)]
    ELSE Absent

\* The effect on [activeReportVersion, reports, view].
IncompleteEffect(vw, r, a) ==
    IF vw = "REPORT" /\ ~Falsy(r, a) THEN ~EndsWithHtml(r[a]) ELSE FALSE

\* ---------------------------------------------------------------- handlers

\* targetMode of handleAskAI: reportMeta[versionToUse]?.mode || 'deep', or mode.
TargetMode(mode, v, cMeta) ==
    IF mode = "regenerate"
    THEN (IF v \in DOMAIN cMeta THEN cMeta[v] ELSE "deep")
    ELSE mode

\* sysPrompt of handleAskAI: the instruction of the target mode.
SysPrompt(targetMode) ==
    IF targetMode = "quick" THEN "QUICK_ANALYZE_SYSTEM_INSTRUCTION"
    ELSE "DEFAULT_ANALYZE_SYSTEM_INSTRUCTION"

NoChat == [on |-> FALSE]
Idle == [op |-> "idle"]

InFlight == DOMAIN streams

\* A rejected promise's continuation runs before the next task.
NoMicrotask == \A s \in InFlight : ~streams[s].aborted

\* The step taken last: the handler, and the request it is about.
Ev(op, s) == [op |-> op, s |-> s]

\* A step of request s: its handler and the version it writes.
EvOf(op, s) ==
    [op |-> op, s |-> s, kind |-> streams[s].kind, v |-> streams[s].version]

NoStreams == [s \in {} |-> 0]

\* ------------------------------------------------------------------ mount

\* The load effect: what it reads from localStorage.
StoredReports(l) == IF l.has THEN Parse(l.reports) ELSE EmptyMap
StoredMeta(l) == IF l.has THEN Parse(l.meta) ELSE EmptyMap

\* sortedVersions[sortedVersions.length - 1] || 'V1'
LoadedActive(keys) ==
    IF keys = {} THEN VKey(1)
    ELSE IF LastSorted(keys) = EmptyKey THEN VKey(1) ELSE LastSorted(keys)

\* The state of App once the mount effects have run on the storage l: the
\* load effect, then the persist effect on the state loaded.
Mounted(l) ==
    /\ view' = "INPUT"
    /\ analysis' = FALSE
    /\ aiLoading' = FALSE
    /\ aiError' = "null"
    /\ reports' = StoredReports(l)
    /\ reportMeta' = IF DOMAIN StoredReports(l) # {} THEN StoredMeta(l) ELSE EmptyMap
    /\ activeReportVersion' = LoadedActive(DOMAIN StoredReports(l))
    /\ isReportIncomplete' = FALSE
    /\ abortControllerRef' = 0
    /\ streams' = NoStreams
    /\ chatGen' = NoChat
    /\ ls' = PersistEffect(reports', reportMeta')

\* What localStorage holds when the page is first opened: nothing, or the
\* reports an earlier visit left (here V2, its V1 deleted).
StoredAtStart ==
    {Absent,
     PersistEffect([k \in {VKey(2)} |-> <<"x">>], [k \in {VKey(2)} |-> "quick"])}

InitApp ==
    /\ ls \in StoredAtStart
    /\ view = "INPUT"
    /\ analysis = FALSE
    /\ aiLoading = FALSE
    /\ aiError = "null"
    /\ reports = StoredReports(ls)
    /\ reportMeta = StoredMeta(ls)
    /\ activeReportVersion = LoadedActive(DOMAIN reports)
    /\ isReportIncomplete = FALSE
    /\ abortControllerRef = 0
    /\ streams = NoStreams
    /\ nextId = 0
    /\ received = 0
    /\ chatGen = NoChat
    /\ ev = Ev("init", 0)

InitRest ==
    /\ herb = Idle
    /\ tool = Idle
    /\ cloud = Idle
    /\ calc = Idle
    /\ gen = Idle
    /\ bot = Idle

Init == InitApp /\ InitRest

\* The page is left and loaded again: requests in flight are gone.
Remount ==
    /\ NoMicrotask
    /\ Mounted(ls)
    /\ ev' = Ev("mount", 0)
    /\ UNCHANGED <<nextId, received, restVars>>

\* ------------------------------------------------------- App: click handlers

\* handleStartCalculation: setAnalysis(result); setView(WORKSHOP).
HandleStartCalculation ==
    /\ NoMicrotask
    /\ view = "INPUT"
    /\ analysis' = TRUE
    /\ view' = "WORKSHOP"
    /\ isReportIncomplete' = IncompleteEffect(view', reports, activeReportVersion)
    /\ ev' = Ev("ui", 0)
    /\ UNCHANGED <<aiLoading, aiError, reports, reportMeta, activeReportVersion,
                   abortControllerRef, streams, nextId, received, chatGen, ls, restVars>>

\* The navigation tabs of the header, shown when view # INPUT.
SetView(target) ==
    /\ NoMicrotask
    /\ view # "INPUT"
    /\ target # view
    /\ view' = target
    /\ isReportIncomplete' = IncompleteEffect(view', reports, activeReportVersion)
    /\ ev' = Ev("ui", 0)
    /\ UNCHANGED <<analysis, aiLoading, aiError, reports, reportMeta,
                   activeReportVersion, abortControllerRef, streams, nextId, received,
                   chatGen, ls, restVars>>

\* The version tabs of the report header, shown with more than one version.
SetActiveReportVersion(v) ==
    /\ NoMicrotask
    /\ view = "REPORT"
    /\ Cardinality(DOMAIN reports) > 1
    /\ v \in DOMAIN reports
    /\ v # activeReportVersion
    /\ activeReportVersion' = v
    /\ isReportIncomplete' = IncompleteEffect(view, reports, v)
    /\ ev' = Ev("ui", 0)
    /\ UNCHANGED <<view, analysis, aiLoading, aiError, reports, reportMeta,
                   abortControllerRef, streams, nextId, received, chatGen, ls, restVars>>

\* The report header is rendered when reports has a key; with aiLoading it
\* offers only the stop button, without it the reset and delete buttons.
HeaderShown == view = "REPORT" /\ DOMAIN reports # {}

\* A stop that leaves the signal of the request s alone.
AbortNothing(s) == streams

\* controller.abort() on the request s.
Abort(s) ==
    [t \in InFlight |-> IF t = s THEN [streams[t] EXCEPT !.aborted = TRUE] ELSE streams[t]]

\* handleStopAI
HandleStopAI ==
    /\ NoMicrotask
    /\ HeaderShown /\ aiLoading
    /\ abortControllerRef # 0
    /\ streams' = Abort(abortControllerRef)
    /\ abortControllerRef' = 0
    /\ aiLoading' = FALSE
    /\ reports' = Put(reports, activeReportVersion,
                      Append(TextOf(reports, activeReportVersion), StopMark))
    /\ ls' = PersistEffect(reports', reportMeta)
    /\ isReportIncomplete' = IncompleteEffect(view, reports', activeReportVersion)
    /\ ev' = Ev("stop", abortControllerRef)
    /\ UNCHANGED <<view, analysis, aiError, reportMeta, activeReportVersion,
                   nextId, received, chatGen, restVars>>

\* handleResetCurrentVersion, confirmed.
HandleResetCurrentVersion ==
    /\ NoMicrotask
    /\ HeaderShown /\ ~aiLoading
    /\ activeReportVersion # EmptyKey
    /\ reports' = Put(reports, activeReportVersion, <<>>)
    /\ aiError' = "null"
    /\ ls' = PersistEffect(reports', reportMeta)
    /\ isReportIncomplete' = IncompleteEffect(view, reports', activeReportVersion)
    /\ ev' = Ev("reset", 0)
    /\ UNCHANGED <<view, analysis, aiLoading, reportMeta, activeReportVersion,
                   abortControllerRef, streams, nextId, received, chatGen, restVars>>

\* A deletion that activates no version.
ActivateNone(remaining) == EmptyKey

\* The version handleDeleteReportVersion activates.
NextActive(remaining) == IF remaining # {} THEN LastSorted(remaining) ELSE EmptyKey

\* handleDeleteReportVersion, confirmed.
HandleDeleteReportVersion ==
    /\ NoMicrotask
    /\ HeaderShown /\ ~aiLoading
    /\ activeReportVersion # EmptyKey
    /\ activeReportVersion \in DOMAIN reports
    /\ reports' = Without(reports, activeReportVersion)
    /\ reportMeta' = Without(reportMeta, activeReportVersion)
    /\ activeReportVersion' = NextActive(DOMAIN reports')
    /\ ls' = PersistEffect(reports', reportMeta')
    /\ isReportIncomplete' = IncompleteEffect(view, reports', activeReportVersion')
    /\ ev' = Ev("delete", 0)
    /\ UNCHANGED <<view, analysis, aiLoading, aiError, abortControllerRef,
                   streams, nextId, received, chatGen, restVars>>

\* ------------------------------------------------- App: report generation

\* A handleAskAI without the reuse of an empty slot.
NeverEmpty(cActive, cReports) == FALSE

\* isCurrentVersionEmpty of handleAskAI, on the values its closure holds.
IsCurrentVersionEmpty(cActive, cReports) ==
    /\ cActive # EmptyKey
    /\ (IF Falsy(cReports, cActive) THEN TRUE ELSE IsBlankText(cReports[cActive]))

\* versionToUse of handleAskAI.
VersionToUse(mode, cActive, cReports) ==
    IF mode = "regenerate" THEN cActive
    ELSE IF IsCurrentVersionEmpty(cActive, cReports) THEN cActive
    ELSE VKey(MaxVer(DOMAIN cReports) + 1)


\* The locals of a handler: the version it writes, the text it started from
\* (htmlContent is base followed by sent) and the chunks received.
NewStream(kind, v, text) ==
    [kind |-> kind, version |-> v, base |-> text, sent |-> <<>>, aborted |-> FALSE]

AddStream(id, rec) == [s \in InFlight \cup {id} |-> IF s = id THEN rec ELSE streams[s]]

DropStream(id) == [s \in InFlight \ {id} |-> streams[s]]

\* handleAskAI up to its first await, called with the state its closure
\* holds: activeReportVersion, reports and the targetMode it computes.
AskAI(mode, cActive, cReports, cMode) ==
    LET v == VersionToUse(mode, cActive, cReports)
        id == nextId + 1
    IN  /\ nextId < MaxStreams
        /\ nextId' = id
        /\ view' = "REPORT"
        /\ aiLoading' = TRUE
        /\ aiError' = "null"
        /\ abortControllerRef' = id
        /\ activeReportVersion' = IF mode = "regenerate" THEN activeReportVersion ELSE v
        /\ reports' = Put(reports, v, <<>>)
        /\ reportMeta' = Put(reportMeta, v, cMode)
        /\ streams' = AddStream(id, NewStream("ask", v, <<>>))
        /\ ls' = PersistEffect(reports', reportMeta')
        /\ isReportIncomplete' = IncompleteEffect(view', reports', activeReportVersion')
        /\ ev' = [op |-> mode, s |-> id, v |-> v, after |-> ev.op,
                  prompt |-> SysPrompt(cMode)]
        /\ UNCHANGED <<analysis, received, restVars>>

\* The main area of the report view: the spinner, else the error panel with
\* its retry button, else the report, else the two mode buttons.
SpinnerShown == aiLoading /\ Falsy(reports, activeReportVersion)
ErrorShown == aiError \notin {"null", ""}
RetryShown == view = "REPORT" /\ ~SpinnerShown /\ ErrorShown
SelectionShown ==
    /\ view = "REPORT" /\ ~SpinnerShown /\ ~ErrorShown
    /\ Falsy(reports, activeReportVersion)
    /\ analysis
ContinueShown ==
    /\ view = "REPORT" /\ ~SpinnerShown /\ ~ErrorShown
    /\ ~Falsy(reports, activeReportVersion)
    /\ isReportIncomplete
    /\ ~aiLoading

\* The buttons that call handleAskAI: retry calls it with 'deep', the mode
\* buttons with 'deep' and 'quick'.
AskShown(mode) == IF RetryShown THEN mode = "deep" ELSE SelectionShown

\* handleAskAI('deep') or handleAskAI('quick') from the report view.
HandleAskAI(mode) ==
    /\ NoMicrotask
    /\ AskShown(mode)
    /\ analysis
    /\ AskAI(mode, activeReportVersion, reports, TargetMode(mode, EmptyKey, reportMeta))
    /\ UNCHANGED chatGen

\* handleContinueAI up to its first await.
HandleContinueAI ==
    /\ NoMicrotask
    /\ ContinueShown
    /\ analysis /\ ~Falsy(reports, activeReportVersion)
    /\ isReportIncomplete /\ ~aiLoading
    /\ nextId < MaxStreams
    /\ nextId' = nextId + 1
    /\ aiLoading' = TRUE
    /\ aiError' = "null"
    /\ abortControllerRef' = nextId + 1
    /\ streams' = AddStream(nextId + 1, NewStream("continue", activeReportVersion,
                                                  reports[activeReportVersion]))
    /\ ev' = [op |-> "continue", s |-> nextId + 1, v |-> activeReportVersion]
    /\ UNCHANGED <<view, analysis, reports, reportMeta, activeReportVersion,
                   isReportIncomplete, received, chatGen, ls, restVars>>

\* ---------------------------------------------- analyzePrescriptionWithAI

\* htmlContent += chunk
Accumulate(html, chunk) == Append(html, chunk)

\* htmlContent (finalContent) of the handler s.
HtmlContent(s) == streams[s].base \o streams[s].sent

\* err.message alone, without the default text.
MessageOnly(message) == message

\* err.message || the handler's default text
ErrorText(message) == IF message = "" THEN "unknown error" ELSE message

\* The request s is pending and its signal is not aborted.
Live(s) == s \in InFlight /\ ~streams[s].aborted

\* The catch and finally blocks of handleAskAI and handleContinueAI on an
\* error that is no AbortError.
Fail(s, message) ==
    /\ aiError' = ErrorText(message)
    /\ aiLoading' = FALSE
    /\ abortControllerRef' = 0
    /\ streams' = DropStream(s)
    /\ ev' = EvOf("fail", s)
    /\ UNCHANGED <<view, analysis, reports, reportMeta, activeReportVersion,
                   isReportIncomplete, nextId, received, chatGen, ls, restVars>>

\* fetch or reader.read() rejects with a network exception.
NetworkError(s, message) ==
    /\ NoMicrotask
    /\ Live(s)
    /\ Fail(s, message)

\* The response is not ok: throw new Error(`AI Analysis Failed: ${err}`).
HttpError(s) ==
    /\ NoMicrotask
    /\ Live(s) /\ streams[s].sent = <<>>
    /\ Fail(s, "AI Analysis Failed")

\* One `data: ` line with delta.content: the generator yields it and the
\* handler stores the text accumulated so far.
ReadChunk(s, chunk) ==
    /\ NoMicrotask
    /\ Live(s)
    /\ received < MaxChunks
    /\ received' = received + 1
    /\ streams' = [streams EXCEPT ![s].sent = Append(streams[s].sent, chunk)]
    /\ reports' = Put(reports, streams[s].version, Accumulate(HtmlContent(s), chunk))
    /\ ls' = PersistEffect(reports', reportMeta)
    /\ isReportIncomplete' = IncompleteEffect(view, reports', activeReportVersion)
    /\ ev' = EvOf("chunk", s)
    /\ UNCHANGED <<view, analysis, aiLoading, aiError, reportMeta,
                   activeReportVersion, abortControllerRef, nextId, chatGen, restVars>>

\* End of stream or `data: [DONE]`: the loop ends and the handler completes.
ReadEnd(s) ==
    /\ NoMicrotask
    /\ Live(s)
    /\ isReportIncomplete' = ~EndsWithHtml(HtmlContent(s))
    /\ aiLoading' = FALSE
    /\ abortControllerRef' = 0
    /\ streams' = DropStream(s)
    /\ ev' = EvOf("end", s)
    /\ UNCHANGED <<view, analysis, aiError, reports, reportMeta,
                   activeReportVersion, nextId, received, chatGen, ls, restVars>>

\* The pending await rejects with AbortError: the catch block returns and
\* the finally block runs.
AbortSettle(s) ==
    /\ s \in InFlight /\ streams[s].aborted
    /\ aiLoading' = FALSE
    /\ abortControllerRef' = 0
    /\ streams' = DropStream(s)
    /\ ev' = EvOf("aborted", s)
    /\ UNCHANGED <<view, analysis, aiError, reports, reportMeta,
                   activeReportVersion, isReportIncomplete, nextId, received, chatGen,
                   ls, restVars>>

\* ------------------------------------------------------------------- chat

\* AIChatbot's handleSend: runGeneration keeps the props of the render it
\* was created in, onRegenerateReport among them, for all its rounds.  Of
\* the state that closure holds, handleAskAI('regenerate') reads
\* activeReportVersion and reportMeta[activeReportVersion]?.mode.
ChatSend ==
    /\ NoMicrotask
    /\ view = "AI_CHAT" /\ analysis
    /\ ~chatGen.on
    /\ nextId < MaxStreams
    /\ chatGen' = [on |-> TRUE, active |-> activeReportVersion,
                    mode |-> TargetMode("regenerate", activeReportVersion, reportMeta)]
    /\ ev' = Ev("ui", 0)
    /\ UNCHANGED <<view, analysis, aiLoading, aiError, reports, reportMeta,
                   activeReportVersion, isReportIncomplete, abortControllerRef, streams,
                   nextId, received, ls, restVars>>

\* The tool call regenerate_report: onRegenerateReport, that is
\* handleAskAI('regenerate', instr) of the render the chat props came from.
ChatRegenerateReport ==
    /\ NoMicrotask
    /\ chatGen.on
    /\ AskAI("regenerate", chatGen.active, reports, chatGen.mode)
    /\ UNCHANGED chatGen

\* The chat generation ends.
ChatEnd ==
    /\ NoMicrotask
    /\ chatGen.on
    /\ chatGen' = NoChat
    /\ ev' = Ev("ui", 0)
    /\ UNCHANGED <<view, analysis, aiLoading, aiError, reports, reportMeta,
                   activeReportVersion, isReportIncomplete, abortControllerRef, streams,
                   nextId, received, ls, restVars>>

\* ----------------------------------------------------------- specification

Views == {"INPUT", "WORKSHOP", "REPORT", "AI_CHAT"}

Messages == {"", "Failed to fetch"}

Next ==
    \/ HandleStartCalculation
    \/ \E target \in Views : SetView(target)
    \/ \E v \in DOMAIN reports : SetActiveReportVersion(v)
    \/ HandleStopAI
    \/ HandleResetCurrentVersion
    \/ HandleDeleteReportVersion
    \/ \E mode \in {"deep", "quick"} : HandleAskAI(mode)
    \/ HandleContinueAI
    \/ \E s \in InFlight, message \in Messages : NetworkError(s, message)
    \/ \E s \in InFlight : HttpError(s)
    \/ \E s \in InFlight, chunk \in Chunks : ReadChunk(s, chunk)
    \/ \E s \in InFlight : ReadEnd(s)
    \/ \E s \in InFlight : AbortSettle(s)
    \/ ChatSend
    \/ ChatRegenerateReport
    \/ ChatEnd
    \/ Remount

Spec == Init /\ [][Next]_vars

\* ------------------------------------------------------ properties of App

\* reports[v] is exactly the text t.
Holds(r, v, t) == IF v \in DOMAIN r THEN r[v] = t ELSE FALSE

\* Every version of r other than v is in r2 with the same content.
OthersKept(r, r2, v) ==
    \A k \in DOMAIN r \ {v} : IF k \in DOMAIN r2 THEN r2[k] = r[k] ELSE FALSE

\* C1: when a generation started by handleAskAI reaches the end of its
\* stream, reports[version] is the concatenation, in the order received, of
\* the chunks of that stream.
C1_ReportIsConcatenation ==
    [][\A s \in InFlight :
          (ev'.op = "end" /\ ev'.s = s /\ streams[s].kind = "ask")
          => Holds(reports', streams[s].version, streams[s].sent)]_vars

C3_FailureIsShown ==
    ev.op = "fail" => aiError \notin {"null", ""} /\ ~aiLoading

\* A continuation that failed with an error without a message.
C3_Witness ==
    /\ ev.op = "fail"
    /\ ev.kind = "continue"
    /\ aiError = ErrorText("")
    /\ ~aiLoading

\* v is a key of r whose numeric suffix no key of r exceeds.
GreatestIn(r, v) ==
    IF v \in DOMAIN r THEN \A k \in DOMAIN r : VerNum(k) <= VerNum(v) ELSE FALSE

\* C7: a remount keeps the reports: after the mount effects reports is what
\* it was, and activeReportVersion is its version with the greatest numeric
\* suffix; with no reports the storage keys are absent.
C7_ReportsSurviveRemount ==
    [][ev'.op = "mount"
       => /\ DOMAIN reports # {}
             => reports' = reports /\ GreatestIn(reports', activeReportVersion')
          /\ DOMAIN reports = {} => ~ls'.has]_vars

\* The text t is not empty and not white space only.
HasText(t) == ~IsBlankText(t)

\* The new key is `V${n+1}` with n the greatest numeric suffix in r.
IsNextKey(r, v) ==
    /\ Len(v) = 2 /\ v[1] = "V"
    /\ \A k \in DOMAIN r : VerNum(k) < v[2]
    /\ v[2] = 1 \/ \E k \in DOMAIN r : VerNum(k) = v[2] - 1

\* What C9 says of the step of handleAskAI('deep' or 'quick') and of the
\* chunks written afterwards.
NewVersionStep ==
    /\ IsNextKey(reports, ev'.v)
    /\ ev'.v \notin DOMAIN reports
    /\ Holds(reports', ev'.v, <<>>)
    /\ activeReportVersion' = ev'.v
    /\ OthersKept(reports, reports', ev'.v)

C10_ResetSlotIsReused ==
    [][(/\ ev'.op \in {"deep", "quick"}
        /\ activeReportVersion # EmptyKey
        /\ Holds(reports, activeReportVersion, <<>>))
       => /\ ev'.v = activeReportVersion
          /\ activeReportVersion' = activeReportVersion
          /\ DOMAIN reports' = DOMAIN reports
          /\ reportMeta'[ev'.v] = ev'.op
          /\ OthersKept(reports, reports', ev'.v)]_vars

\* 'quick' asked right after the reset of a version recorded as 'deep'.
C10_Witness ==
    /\ ev.op = "quick"
    /\ ev.after = "reset"
    /\ ev.v = VKey(1)
    /\ DOMAIN reports = {VKey(1)}
    /\ reportMeta[VKey(1)] = "quick"

\* The report mode recorded for v, 'deep' when none is.
RecordedMode(m, v) == IF v \in DOMAIN m THEN m[v] ELSE "deep"

\* C11: handleAskAI('regenerate') with the active version in reports writes
\* under the active version, adds no key to reports, leaves the mode
\* recorded for that version (deep when none is) and sends the system prompt
\* of that mode.
C11_RegenerateKeepsVersion ==
    [][(ev'.op = "regenerate" /\ activeReportVersion \in DOMAIN reports)
       => /\ ev'.v = activeReportVersion
          /\ Holds(reports', activeReportVersion, <<>>)
          /\ DOMAIN reports' = DOMAIN reports
          /\ reportMeta'[ev'.v] = RecordedMode(reportMeta, activeReportVersion)
          /\ ev'.prompt = SysPrompt(RecordedMode(reportMeta, activeReportVersion))]_vars

\* reports[v] starts with the text t.
StartsWith(r, v, t) ==
    IF v \in DOMAIN r
    THEN Len(t) <= Len(r[v]) /\ SubSeq(r[v], 1, Len(t)) = t
    ELSE FALSE

\* C12: while a continuation is in flight the text its version held when it
\* began is a prefix of reports[version]; after each of its chunks, and at
\* the end of its stream, reports[version] is that text followed by the
\* chunks received, in order; a failure that is no abort leaves reports as
\* it was.
C12_ContinueOnlyAppends ==
    [][/\ \A s \in DOMAIN streams' :
            streams'[s].kind = "continue"
            => StartsWith(reports', streams'[s].version, streams'[s].base)
       /\ \A s \in InFlight :
            (ev'.s = s /\ streams[s].kind = "continue")
            => /\ ev'.op = "chunk"
                  => Holds(reports', streams[s].version,
                           streams[s].base \o streams'[s].sent)
               /\ ev'.op = "end"
                  => Holds(reports', streams[s].version,
                           streams[s].base \o streams[s].sent)
               /\ ev'.op = "fail"
                  => /\ reports' = reports
                     /\ StartsWith(reports', streams[s].version, streams[s].base)]_vars

\* C13: a confirmed handleDeleteReportVersion removes the active key from
\* reports and reportMeta and nothing else; activeReportVersion becomes the
\* remaining version with the greatest numeric suffix, or the empty string
\* with isReportIncomplete false when none remains.
C13_DeleteRemovesOneVersion ==
    [][ev'.op = "delete"
       => /\ DOMAIN reports' = DOMAIN reports \ {activeReportVersion}
          /\ DOMAIN reportMeta' = DOMAIN reportMeta \ {activeReportVersion}
          /\ OthersKept(reports, reports', activeReportVersion)
          /\ OthersKept(reportMeta, reportMeta', activeReportVersion)
          /\ IF DOMAIN reports' # {}
             THEN GreatestIn(reports', activeReportVersion')
             ELSE activeReportVersion' = EmptyKey /\ ~isReportIncomplete']_vars

\* One of two versions was deleted and the one left is active.
C13_Witness ==
    /\ ev.op = "delete"
    /\ nextId > 0
    /\ DOMAIN reports = {VKey(2)}
    /\ DOMAIN reportMeta = {VKey(2)}
    /\ activeReportVersion = VKey(2)

\* The requests of handleAskAI and handleContinueAI that are being read.
LiveStreams == {s \in InFlight : ~streams[s].aborted}

\* C20: at most one report stream is being read at any time, and while one
\* is, aiLoading is true and abortControllerRef holds its controller.
C20_SingleReportStream ==
    /\ Cardinality(LiveStreams) <= 1
    /\ \A s \in LiveStreams : aiLoading /\ abortControllerRef = s

\* ================================================= generateHerbDataWithAI

\* The text of a reply, as tokens: "f" is a fence, "j" the word json,
\* "s" white space, "o" the text of a JSON object, "n" the text null.
ReplyTokens == {"f", "j", "s", "o", "n"}

RECURSIVE SeqsUpTo(_, _)
SeqsUpTo(S, n) ==
    IF n = 0 THEN {<<>>}
    ELSE LET shorter == SeqsUpTo(S, n - 1)
         IN shorter \cup {Append(q, x) : q \in shorter, x \in S}

Least(S) == CHOOSE x \in S : \A y \in S : x <= y
Greatest(S) == CHOOSE x \in S : \A y \in S : y <= x

\* str.trim()
Trim(str) ==
    LET inked == {i \in 1..Len(str) : str[i] # "s"}
    IN IF inked = {} THEN <<>> ELSE SubSeq(str, Least(inked), Greatest(inked))

\* str.match(/FENCE(?:json)?\s*([\s\S]*?)\s*FENCE/i): the first fence, the
\* word json if it follows, and the text up to the next fence, without the
\* white space around it; null when there is no such pair of fences.
NoMatch == [found |-> FALSE, capture |-> <<>>]

FenceMatch(str) ==
    LET fences == {i \in 1..Len(str) : str[i] = "f"}
    IN IF fences = {} THEN NoMatch
       ELSE LET open == Least(fences)
                from == IF open < Len(str) /\ str[open + 1] = "j"
                        THEN open + 2 ELSE open + 1
                closing == {i \in fences : i >= from}
            IN IF closing = {} THEN NoMatch
               ELSE [found |-> TRUE, capture |-> Trim(SubSeq(str, from, Least(closing) - 1))]

\* cleanJsonString
CleanJsonString(str) ==
    LET match == FenceMatch(str)
    IN IF ~match.found THEN Trim(str)
       ELSE IF match.capture # <<>> THEN Trim(match.capture)
       ELSE Trim(str)

\* JSON.parse: one value with white space around it, else a SyntaxError.
JsonParse(str) ==
    IF Trim(str) = <<"o">> THEN "object"
    ELSE IF Trim(str) = <<"n">> THEN "null"
    ELSE "SyntaxError"

\* A catch block that lets the exception go.
HerbRethrow(h) == [h EXCEPT !.pc = "done", !.threw = TRUE]

\* catch (e) { console.error(...); return null; }
HerbCatch(h) == [h EXCEPT !.pc = "done", !.result = "null"]

\* return null / return { id, name, ... }
HerbReturns(h, value) == [h EXCEPT !.pc = "done", !.result = value]

\* data.choices?.[0]?.message?.content: undefined, or the text of the reply.
Undefined == [defined |-> FALSE, text |-> <<>>]
Text(str) == [defined |-> TRUE, text |-> str]

\* The steps after const content = data.choices?.[0]?.message?.content.
HerbFromContent(h, content) ==
    IF ~content.defined THEN HerbReturns(h, "null")
    ELSE IF content.text = <<>> THEN HerbReturns(h, "null")
    ELSE LET json == JsonParse(CleanJsonString(content.text))
         IN IF json = "SyntaxError" THEN HerbCatch(h)
            ELSE IF json = "null" THEN HerbCatch(h)   \* json.name: TypeError
            ELSE HerbReturns(h, "herb")

NewHerbCall(key) ==
    [op |-> "herb", pc |-> "fetch", apiKey |-> key, sent |-> FALSE, http |-> "none",
     content |-> Undefined, result |-> "none", threw |-> FALSE]

\* generateHerbDataWithAI is called: the API key check, then fetch.
HerbCall(key) ==
    /\ herb = Idle
    /\ herb' = IF key THEN [NewHerbCall(key) EXCEPT !.sent = TRUE]
               ELSE [NewHerbCall(key) EXCEPT !.pc = "done", !.threw = TRUE]
    /\ UNCHANGED <<appVars, gen, bot, tool, cloud, calc>>

\* fetch rejects.
HerbNetworkError ==
    /\ herb # Idle /\ herb.pc = "fetch"
    /\ herb' = HerbCatch([herb EXCEPT !.http = "network"])
    /\ UNCHANGED <<appVars, gen, bot, tool, cloud, calc>>

\* if (!res.ok) throw new Error("API call failed")
HerbNotOk ==
    /\ herb # Idle /\ herb.pc = "fetch"
    /\ herb' = HerbCatch([herb EXCEPT !.http = "status"])
    /\ UNCHANGED <<appVars, gen, bot, tool, cloud, calc>>

\* res.json() rejects: the body is no JSON.
HerbBadBody ==
    /\ herb # Idle /\ herb.pc = "fetch"
    /\ herb' = HerbCatch([herb EXCEPT !.http = "body"])
    /\ UNCHANGED <<appVars, gen, bot, tool, cloud, calc>>

\* The response is read: it has no content, or the content given.
HerbReply(content) ==
    /\ herb # Idle /\ herb.pc = "fetch"
    /\ herb' = HerbFromContent([herb EXCEPT !.http = "ok", !.content = content], content)
    /\ UNCHANGED <<appVars, gen, bot, tool, cloud, calc>>

\* The caller has the outcome; the next call can be made.
HerbDone ==
    /\ herb # Idle /\ herb.pc = "done"
    /\ herb' = Idle
    /\ UNCHANGED <<appVars, gen, bot, tool, cloud, calc>>

Replies == {Undefined} \cup {Text(str) : str \in SeqsUpTo(ReplyTokens, MaxReply)}

NextHerb ==
    \/ \E key \in BOOLEAN : HerbCall(key)
    \/ HerbNetworkError
    \/ HerbNotOk
    \/ HerbBadBody
    \/ \E content \in Replies : HerbReply(content)
    \/ HerbDone

SpecHerb == Init /\ [][NextHerb]_vars

\* The reply is empty, is no JSON once the fence is stripped, or is null.
ReplyUnusable(content) ==
    IF ~content.defined THEN TRUE
    ELSE IF content.text = <<>> THEN TRUE
    ELSE JsonParse(CleanJsonString(content.text)) \in {"SyntaxError", "null"}

\* C4: generateHerbDataWithAI throws exactly when the API key is missing,
\* and then no request was sent; with a key, it returns null when the HTTP
\* call fails and when the reply is empty, is no JSON after the fence is
\* stripped, or parses to null.
C4_NullOnBadReply ==
    (herb # Idle /\ herb.pc = "done")
    => /\ herb.threw <=> ~herb.apiKey
       /\ herb.threw => ~herb.sent /\ herb.result = "none"
       /\ (herb.apiKey /\ herb.http \in {"network", "status", "body"})
          => herb.result = "null"
       /\ (herb.apiKey /\ herb.http = "ok" /\ ReplyUnusable(herb.content))
          => herb.result = "null"

\* A reply whose fence holds the text null.
C4_Witness ==
    /\ herb # Idle /\ herb.pc = "done"
    /\ herb.apiKey /\ herb.http = "ok"
    /\ herb.content = Text(<<"f", "n", "f">>)
    /\ herb.result = "null" /\ ~herb.threw

\* ======================================== runGeneration: the tool calls

ToolNames == {"lookup_herb", "update_prescription", "regenerate_report", "other_tool"}

\* The arguments text accumulated for a tool call: nothing, the text null,
\* an object without the field the tool reads, an object with it.
ArgTexts == {"", "null", "{}", "{a}"}

\* JSON.parse(tc.args)
ParseArgs(text) ==
    IF text = "" THEN "SyntaxError"
    ELSE IF text = "null" THEN "null"
    ELSE IF text = "{}" THEN "object"
    ELSE "objectA"

\* tool.args.query / .prescription / .instructions
Field(args) == IF args = "objectA" THEN "a" ELSE "undefined"

\* toolCallsArray.map(... JSON.parse ...).filter(c => c !== null)
RECURSIVE ParsedCalls(_)
ParsedCalls(raw) ==
    IF raw = <<>> THEN <<>>
    ELSE LET tc == Head(raw)
             rest == ParsedCalls(Tail(raw))
         IN IF ParseArgs(tc.args) = "SyntaxError" THEN rest
            ELSE <<[id |-> tc.id, name |-> tc.name, args |-> ParseArgs(tc.args)]>> \o rest

\* The tool calls of a response, with the ids the model gave them.
RawCalls ==
    UNION {[1..n -> ToolNames \X ArgTexts] : n \in 1..MaxCalls}

WithIds(f) == [k \in DOMAIN f |-> [id |-> k, name |-> f[k][1], args |-> f[k][2]]]

\* The stream of generateChatStream ends with tool calls: those whose
\* arguments parse are yielded, and runGeneration starts on them (with none
\* left nothing is yielded and there is no tool step).
ToolsReceive(raw) ==
    /\ tool = Idle
    /\ tool' = [op |-> "tools", pc |-> IF ParsedCalls(raw) = <<>> THEN "done" ELSE "loop",
                raw |-> raw, todo |-> ParsedCalls(raw),
                invoked |-> <<>>, results |-> <<>>]
    /\ UNCHANGED <<appVars, gen, bot, herb, cloud, calc>>

\* The effect of one iteration of for (const tool of toolCallsResult) on a
\* call; reading a field of null raises a TypeError that leaves the loop.
Dispatch(g, call) ==
    IF call.name \in {"lookup_herb", "update_prescription", "regenerate_report"}
       /\ call.args = "null"
    THEN [g EXCEPT !.pc = "failed"]
    ELSE LET callback ==
                 IF call.name = "update_prescription" THEN "onUpdatePrescription"
                 ELSE IF call.name = "regenerate_report" THEN "onRegenerateReport"
                 ELSE "none"
             result ==
                 IF call.name = "lookup_herb" THEN "searchHerbsForAI"
                 ELSE IF call.name = "update_prescription"
                 THEN "Prescription updated successfully in frontend."
                 ELSE IF call.name = "regenerate_report"
                 THEN "Report regeneration triggered."
                 ELSE "Unknown tool."
         IN [g EXCEPT
               !.todo = Tail(@),
               !.invoked = IF callback = "none" THEN @
                           ELSE Append(@, [id |-> call.id, callback |-> callback,
                                           arg |-> Field(call.args)]),
               !.results = Append(@, [id |-> call.id, text |-> result])]

ToolDispatch ==
    /\ tool # Idle /\ tool.pc = "loop" /\ tool.todo # <<>>
    /\ tool' = Dispatch(tool, Head(tool.todo))
    /\ UNCHANGED <<appVars, gen, bot, herb, cloud, calc>>

\* The loop is over: runGeneration goes on with the tool results.
ToolsFinish ==
    /\ tool # Idle /\ tool.pc = "loop" /\ tool.todo = <<>>
    /\ tool' = [tool EXCEPT !.pc = "done"]
    /\ UNCHANGED <<appVars, gen, bot, herb, cloud, calc>>

\* The generation is over (finally); the next one can start.
ToolsEnd ==
    /\ tool # Idle /\ tool.pc \in {"done", "failed"}
    /\ tool' = Idle
    /\ UNCHANGED <<appVars, gen, bot, herb, cloud, calc>>

NextTools ==
    \/ \E f \in RawCalls : ToolsReceive(WithIds(f))
    \/ ToolDispatch
    \/ ToolsFinish
    \/ ToolsEnd

SpecTools == Init /\ [][NextTools]_vars

InvokedFor(g, id) == {k \in 1..Len(g.invoked) : g.invoked[k].id = id}
ResultsFor(g, id) == {k \in 1..Len(g.results) : g.results[k].id = id}

\* The calls of name that name were given to the callback once each.
InvokedOnce(g, tc, callback) ==
    /\ Cardinality(InvokedFor(g, tc.id)) = 1
    /\ \A k \in InvokedFor(g, tc.id) : g.invoked[k].callback = callback

\* C5: when the generation has handled the tool calls of a response, every
\* call returned by the model was dispatched on its name: update_prescription
\* called onUpdatePrescription once, regenerate_report called
\* onRegenerateReport once, lookup_herb called neither callback, and any other
\* name called no callback and has the result text "Unknown tool.".
C5_DispatchByName ==
    (tool # Idle /\ tool.pc \in {"done", "failed"})
    => \A i \in 1..Len(tool.raw) :
         LET tc == tool.raw[i]
         IN /\ tc.name = "update_prescription" => InvokedOnce(tool, tc, "onUpdatePrescription")
            /\ tc.name = "regenerate_report" => InvokedOnce(tool, tc, "onRegenerateReport")
            /\ tc.name = "lookup_herb" => InvokedFor(tool, tc.id) = {}
            /\ tc.name = "other_tool"
               => /\ InvokedFor(tool, tc.id) = {}
                  /\ \E k \in ResultsFor(tool, tc.id) : tool.results[k].text = "Unknown tool."

\* ==================================================== the Supabase wrappers

\* const BATCH_SIZE = 100
BATCH_SIZE == 100

Min(a, b) == IF a <= b THEN a ELSE b

\* getSupabaseClient: null without a URL or a key, and when createClient throws.
GetSupabaseClient(url, key, created) == url /\ key /\ created

\* A catch block that lets the exception go.
CloudRethrow(c, value) == [c EXCEPT !.pc = "done", !.threw = TRUE]

\* catch (e) { console.error(...); return <value>; }
CloudCatch(c, value) == [c EXCEPT !.pc = "done", !.result = value]

CloudReturns(c, value) == [c EXCEPT !.pc = "done", !.result = value]

NoCount == [success |-> 0, failed |-> 0]

NewCloudCall(op, client, n) ==
    [op |-> op, pc |-> "query", client |-> client, n |-> n, i |-> 0,
     successCount |-> 0, failedCount |-> 0, errorMessage |-> FALSE,
     failure |-> FALSE, result |-> "none", counts |-> NoCount, threw |-> FALSE]

\* if (!client) return ...
NoClientValue(op) ==
    IF op = "fetchCloudHerbs" THEN "[]"
    ELSE IF op = "bulkUpsertHerbs" THEN "counts"
    ELSE "false"

CloudOps == {"fetchCloudHerbs", "insertCloudHerb", "updateCloudHerb", "bulkUpsertHerbs"}

\* A wrapper is called: the client is built, and without one it returns.
CloudCall(op, url, key, created, n) ==
    /\ cloud = Idle
    /\ (op # "bulkUpsertHerbs") => n = 1
    /\ LET client == GetSupabaseClient(url, key, created)
           c == NewCloudCall(op, client, n)
       IN cloud' = IF client THEN c
                   ELSE [CloudReturns(c, NoClientValue(op)) EXCEPT
                           !.counts = [success |-> 0, failed |-> n]]
    /\ UNCHANGED <<appVars, gen, bot, herb, tool, calc>>

Querying(op) == cloud # Idle /\ cloud.op = op /\ cloud.pc = "query"

\* fetchCloudHerbs, from the select: an error, no data, rows, rows whose
\* flavors text is no JSON, or an exception.
FetchCloudHerbs(outcome) ==
    /\ Querying("fetchCloudHerbs")
    /\ cloud' =
         LET c == [cloud EXCEPT !.failure = outcome \in {"error", "noTable", "badRows", "exception"}]
         IN IF outcome \in {"error", "noTable"} THEN CloudReturns(c, "[]")
            ELSE IF outcome = "noData" THEN CloudReturns(c, "[]")
            ELSE IF outcome = "rows" THEN CloudReturns(c, "herbs")
            ELSE CloudCatch(c, "[]")
    /\ UNCHANGED <<appVars, gen, bot, herb, tool, calc>>

\* insertCloudHerb, from the upsert.
InsertCloudHerb(outcome) ==
    /\ Querying("insertCloudHerb")
    /\ cloud' =
         LET c == [cloud EXCEPT !.failure = outcome \in {"error", "exception"}]
         IN IF outcome = "error" THEN CloudReturns(c, "false")
            ELSE IF outcome = "ok" THEN CloudReturns(c, "true")
            ELSE CloudCatch(c, "false")
    /\ UNCHANGED <<appVars, gen, bot, herb, tool, calc>>

\* updateCloudHerb, from the update by name; count === 0 goes on to the
\* update by id.
UpdateCloudHerb(outcome) ==
    /\ Querying("updateCloudHerb")
    /\ cloud' =
         LET c == [cloud EXCEPT !.failure = outcome \in {"error", "exception"}]
         IN IF outcome = "error" THEN CloudReturns(c, "false")
            ELSE IF outcome = "ok" THEN CloudReturns(c, "true")
            ELSE IF outcome = "count0" THEN [c EXCEPT !.pc = "byId"]
            ELSE CloudCatch(c, "false")
    /\ UNCHANGED <<appVars, gen, bot, herb, tool, calc>>

\* updateCloudHerb, from the update by id.
UpdateCloudHerbById(outcome) ==
    /\ cloud # Idle /\ cloud.op = "updateCloudHerb" /\ cloud.pc = "byId"
    /\ cloud' =
         LET c == [cloud EXCEPT !.failure = outcome \in {"error", "exception"}]
         IN IF outcome = "error" THEN CloudReturns(c, "false")
            ELSE IF outcome = "ok" THEN CloudReturns(c, "true")
            ELSE CloudCatch(c, "false")
    /\ UNCHANGED <<appVars, gen, bot, herb, tool, calc>>

\* if (errorMessage) { failedCount = herbs.length; successCount = 0 }
\* return { success, failed, error }
BulkReturn(c) ==
    [CloudReturns(c, "counts") EXCEPT
       !.counts = IF c.errorMessage THEN [success |-> 0, failed |-> c.n]
                  ELSE [success |-> c.successCount, failed |-> c.failedCount]]

\* bulkUpsertHerbs, one batch of the loop: its upsert succeeds, returns an
\* error, returns the error of a missing table (the loop breaks), or raises
\* an exception with or without a message.
BulkUpsertBatch(outcome) ==
    /\ Querying("bulkUpsertHerbs")
    /\ cloud.i < cloud.n
    /\ cloud' =
         LET size == Min(BATCH_SIZE, cloud.n - cloud.i)
             c == [cloud EXCEPT !.failure = @ \/ outcome # "ok"]
         IN IF outcome = "ok"
            THEN [c EXCEPT !.successCount = @ + size, !.i = @ + BATCH_SIZE]
            ELSE IF outcome = "error"
            THEN [c EXCEPT !.failedCount = @ + size, !.i = @ + BATCH_SIZE]
            ELSE IF outcome = "noTable"
            THEN BulkReturn([c EXCEPT !.failedCount = @ + size, !.errorMessage = TRUE])
            ELSE IF outcome = "exception"
            THEN BulkReturn(CloudCatch([c EXCEPT !.errorMessage = TRUE,
                                                 !.failedCount = c.n - c.successCount], "counts"))
            ELSE BulkReturn(CloudCatch([c EXCEPT !.failedCount = c.n - c.successCount], "counts"))
    /\ UNCHANGED <<appVars, gen, bot, herb, tool, calc>>

\* bulkUpsertHerbs, after the last batch.
BulkUpsertEnd ==
    /\ Querying("bulkUpsertHerbs")
    /\ cloud.i >= cloud.n
    /\ cloud' = BulkReturn(cloud)
    /\ UNCHANGED <<appVars, gen, bot, herb, tool, calc>>

\* The caller has the outcome; the next call can be made.
CloudDone ==
    /\ cloud # Idle /\ cloud.pc = "done"
    /\ cloud' = Idle
    /\ UNCHANGED <<appVars, gen, bot, herb, tool, calc>>

NextCloud ==
    \/ \E op \in CloudOps, url, key, created \in BOOLEAN, n \in 0..MaxHerbs :
         CloudCall(op, url, key, created, n)
    \/ \E outcome \in {"error", "noTable", "noData", "rows", "badRows", "exception"} :
         FetchCloudHerbs(outcome)
    \/ \E outcome \in {"error", "ok", "exception"} : InsertCloudHerb(outcome)
    \/ \E outcome \in {"error", "ok", "count0", "exception"} : UpdateCloudHerb(outcome)
    \/ \E outcome \in {"error", "ok", "exception"} : UpdateCloudHerbById(outcome)
    \/ \E outcome \in {"ok", "error", "noTable", "exception", "exceptionNoMessage"} :
         BulkUpsertBatch(outcome)
    \/ BulkUpsertEnd
    \/ CloudDone

SpecCloud == Init /\ [][NextCloud]_vars

\* C6: a Supabase wrapper that has returned did not throw; without a client,
\* after an error of the query and after an exception it returned its failure
\* value: [] for fetchCloudHerbs, false for insertCloudHerb and
\* updateCloudHerb, and for bulkUpsertHerbs counts with failures, which are
\* {success: 0, failed: herbs.length} without a client.
C6_WrappersNeverThrow ==
    (cloud # Idle /\ cloud.pc = "done")
    => /\ ~cloud.threw
       /\ (~cloud.client \/ cloud.failure)
          => /\ cloud.op = "fetchCloudHerbs" => cloud.result = "[]"
             /\ cloud.op \in {"insertCloudHerb", "updateCloudHerb"} => cloud.result = "false"
             /\ cloud.op = "bulkUpsertHerbs"
                => /\ cloud.result = "counts"
                   /\ ~cloud.client => cloud.counts = [success |-> 0, failed |-> cloud.n]
                   /\ cloud.failure => cloud.counts.failed > 0

\* A bulk upsert whose third batch raised an exception after two that went in.
C6_Witness ==
    /\ cloud # Idle /\ cloud.pc = "done" /\ cloud.op = "bulkUpsertHerbs"
    /\ cloud.client /\ cloud.failure /\ cloud.n > 2 * BATCH_SIZE
    /\ cloud.successCount = 2 * BATCH_SIZE
    /\ ~cloud.errorMessage
    /\ cloud.counts = [success |-> 2 * BATCH_SIZE, failed |-> cloud.n - 2 * BATCH_SIZE]

\* ==================================================== calculatePrescription

\* The temperature values of the herb classes, cold to hot.
Temperatures == {-2, -1, 0, 1, 2}

HerbLines == [dosage : 1..MaxDosage, temperature : Temperatures]

Prescriptions == UNION {[1..n -> HerbLines] : n \in 0..MaxLines}

\* A contribution that leaves the dosage out.
Unweighted(h) == h.temperature

\* ptiContribution of a herb: its dosage times its temperature value.
PtiContribution(h) == h.dosage * h.temperature

\* handleStartCalculation: parsePrescription, then calculatePrescription
\* starts on the herbs.
CalcStart(herbs) ==
    /\ calc = Idle
    /\ calc' = [op |-> "calc", pc |-> "sum", input |-> herbs, herbs |-> <<>>, totalPTI |-> 0]
    /\ UNCHANGED <<appVars, gen, bot, herb, tool, cloud>>

\* calculatePrescription, one herb: its contribution is stored with the herb
\* and added to the total.
CalcHerb ==
    /\ calc # Idle /\ calc.pc = "sum" /\ Len(calc.herbs) < Len(calc.input)
    /\ LET h == calc.input[Len(calc.herbs) + 1]
           c == PtiContribution(h)
       IN calc' = [calc EXCEPT
                     !.herbs = Append(@, [dosage |-> h.dosage, temperature |-> h.temperature,
                                          ptiContribution |-> c]),
                     !.totalPTI = @ + c]
    /\ UNCHANGED <<appVars, gen, bot, herb, tool, cloud>>

\* calculatePrescription returns the AnalysisResult.
CalcResult ==
    /\ calc # Idle /\ calc.pc = "sum" /\ Len(calc.herbs) = Len(calc.input)
    /\ calc' = [calc EXCEPT !.pc = "done"]
    /\ UNCHANGED <<appVars, gen, bot, herb, tool, cloud>>

\* The next prescription can be calculated.
CalcDone ==
    /\ calc # Idle /\ calc.pc = "done"
    /\ calc' = Idle
    /\ UNCHANGED <<appVars, gen, bot, herb, tool, cloud>>

NextCalc ==
    \/ \E herbs \in Prescriptions : CalcStart(herbs)
    \/ CalcHerb
    \/ CalcResult
    \/ CalcDone

SpecCalc == Init /\ [][NextCalc]_vars

RECURSIVE SumOfContributions(_)
SumOfContributions(herbs) ==
    IF herbs = <<>> THEN 0
    ELSE Head(herbs).ptiContribution + SumOfContributions(Tail(herbs))

\* C8: the totalPTI of an analysis result is the sum of the ptiContribution
\* values of its herbs, and each ptiContribution is the dosage of the herb
\* times its temperature value.
C8_TotalIsSumOfContributions ==
    (calc # Idle /\ calc.pc = "done")
    => /\ Len(calc.herbs) = Len(calc.input)
       /\ calc.totalPTI = SumOfContributions(calc.herbs)
       /\ \A i \in 1..Len(calc.herbs) :
            calc.herbs[i].ptiContribution = calc.input[i].dosage * calc.input[i].temperature

\* A result of two herbs, one hot and one cold, of different dosages.
C8_Witness ==
    /\ calc # Idle /\ calc.pc = "done" /\ Len(calc.herbs) = 2
    /\ calc.herbs[1].temperature > 0 /\ calc.herbs[2].temperature < 0
    /\ calc.herbs[1].dosage > calc.herbs[2].dosage /\ calc.herbs[2].dosage > 1
    /\ calc.totalPTI > 0

\* ============================= generateChatStream: what the stream yields

\* The fragments of arguments text a delta can carry.
Fragments == {"{", "}", "n"}

\* JSON.parse of an arguments text written as its fragments: {} and null
\* are JSON, everything else made of these fragments is not.
JsonParseArgs(text) ==
    IF text = <<"{", "}">> THEN "object"
    ELSE IF text = <<"n">> THEN "null"
    ELSE "SyntaxError"

\* An accumulation that puts the new fragment first.
PrependArgs(args, fragment) == <<fragment>> \o args

\* currentToolCalls[index].args += toolDelta.function.arguments
AppendArgs(args, fragment) == args \o <<fragment>>

\* if (!currentToolCalls[index]) currentToolCalls[index] = { id: '', name: '', args: '' }
\* and the three assignments of a delta; name "" is a delta without a name.
\* The id the model gives a call is written as the index of the call.
ApplyToolDelta(calls, index, name, fragment) ==
    LET old == IF index \in DOMAIN calls THEN calls[index]
               ELSE [id |-> index, name |-> "", args |-> <<>>]
        new == [id |-> index,
                name |-> IF name # "" THEN name ELSE old.name,
                args |-> AppendArgs(old.args, fragment)]
    IN [i \in DOMAIN calls \cup {index} |-> IF i = index THEN new ELSE calls[i]]

\* Object.values(currentToolCalls).map(... JSON.parse(tc.args) ...)
\*   .filter(c => c !== null), from the index given upwards.
RECURSIVE ParsedFrom(_, _)
ParsedFrom(calls, from) ==
    IF from > MaxIndex + 1 THEN <<>>
    ELSE IF from \in DOMAIN calls /\ JsonParseArgs(calls[from].args) # "SyntaxError"
    THEN <<[id |-> calls[from].id, name |-> calls[from].name,
            args |-> JsonParseArgs(calls[from].args)]>> \o ParsedFrom(calls, from + 1)
    ELSE ParsedFrom(calls, from + 1)

NoCalls == [i \in {} |-> 0]

TextItem == [kind |-> "text", calls |-> <<>>]
CallsItem(parsed) == [kind |-> "functionCalls", calls |-> parsed]

\* generateChatStream is called and the response is ok: the read loop starts.
ChatStreamStart ==
    /\ gen = Idle
    /\ gen' = [op |-> "chatStream", pc |-> "reading", deltas |-> 0,
               currentToolCalls |-> NoCalls, yielded |-> <<>>, arrived |-> <<>>]
    /\ UNCHANGED <<appVars, herb, tool, cloud, calc, bot>>

Reading == gen # Idle /\ gen.pc = "reading"

\* A data line with delta.content: yield { text }.
ChatStreamText ==
    /\ Reading /\ gen.deltas < MaxDeltas
    /\ gen' = [gen EXCEPT !.deltas = @ + 1, !.yielded = Append(@, TextItem)]
    /\ UNCHANGED <<appVars, herb, tool, cloud, calc, bot>>

\* A data line with delta.tool_calls: one fragment for the call of that index.
ChatStreamToolDelta(index, name, fragment) ==
    /\ Reading /\ gen.deltas < MaxDeltas
    /\ gen' = [gen EXCEPT
                 !.deltas = @ + 1,
                 !.currentToolCalls = ApplyToolDelta(@, index, name, fragment),
                 !.arrived = Append(@, [index |-> index, fragment |-> fragment])]
    /\ UNCHANGED <<appVars, herb, tool, cloud, calc, bot>>

\* reader.read() gives done: the calls that parse are yielded, if any.
ChatStreamEnd ==
    /\ Reading
    /\ LET parsedCalls == ParsedFrom(gen.currentToolCalls, 0)
       IN gen' = [gen EXCEPT
                    !.pc = "done",
                    !.yielded = IF parsedCalls # <<>> THEN Append(@, CallsItem(parsedCalls))
                                ELSE @]
    /\ UNCHANGED <<appVars, herb, tool, cloud, calc, bot>>

\* reader.read() rejects (network error or abort): finally releases the
\* reader and the exception leaves the generator.
ChatStreamError ==
    /\ Reading
    /\ gen' = [gen EXCEPT !.pc = "failed"]
    /\ UNCHANGED <<appVars, herb, tool, cloud, calc, bot>>

\* The generator is finished; the next request can be made.
ChatStreamClose ==
    /\ gen # Idle /\ gen.op = "chatStream" /\ gen.pc \in {"done", "failed"}
    /\ gen' = Idle
    /\ UNCHANGED <<appVars, herb, tool, cloud, calc, bot>>

DeltaNames == {"", "lookup_herb"}

NextStream ==
    \/ ChatStreamStart
    \/ ChatStreamText
    \/ \E index \in 0..MaxIndex, name \in DeltaNames, fragment \in Fragments :
         ChatStreamToolDelta(index, name, fragment)
    \/ ChatStreamEnd
    \/ ChatStreamError
    \/ ChatStreamClose

SpecStream == Init /\ [][NextStream]_vars

\* The fragments that arrived for the call of that index, in arrival order.
RECURSIVE ArrivedFor(_, _)
ArrivedFor(arrived, index) ==
    IF arrived = <<>> THEN <<>>
    ELSE IF Head(arrived).index = index
    THEN <<Head(arrived).fragment>> \o ArrivedFor(Tail(arrived), index)
    ELSE ArrivedFor(Tail(arrived), index)

\* The indices whose arguments, put together in arrival order, are JSON.
ParsingIndices(arrived) ==
    {i \in {arrived[k].index : k \in 1..Len(arrived)} :
       JsonParseArgs(ArrivedFor(arrived, i)) # "SyntaxError"}

CallsItems(yielded) == {k \in 1..Len(yielded) : yielded[k].kind = "functionCalls"}

\* C14: generateChatStream yields no functionCalls item before the stream
\* has ended; at the end it has yielded at most one, after every text item;
\* the item has one entry for each tool-call index whose fragments, put
\* together in arrival order, parse as JSON, with the value they parse to,
\* and no other entry; when no index parses there is no such item.
C14_FunctionCallsOnceAtEnd ==
    (gen # Idle /\ gen.op = "chatStream")
    => /\ gen.pc \in {"reading", "failed"} => CallsItems(gen.yielded) = {}
       /\ gen.pc = "done"
          => /\ Cardinality(CallsItems(gen.yielded)) <= 1
             /\ CallsItems(gen.yielded) \subseteq {Len(gen.yielded)}
             /\ (ParsingIndices(gen.arrived) = {}) <=> (CallsItems(gen.yielded) = {})
             /\ \A k \in CallsItems(gen.yielded) :
                  LET entries == gen.yielded[k].calls
                  IN /\ Len(entries) = Cardinality(ParsingIndices(gen.arrived))
                     /\ \A i \in ParsingIndices(gen.arrived) :
                          \E e \in 1..Len(entries) :
                            /\ entries[e].id = i
                            /\ entries[e].args = JsonParseArgs(ArrivedFor(gen.arrived, i))

\* Two calls whose fragments arrived interleaved, one of them no JSON, after
\* a text item.
C14_Witness ==
    /\ gen # Idle /\ gen.op = "chatStream" /\ gen.pc = "done"
    /\ gen.arrived = <<[index |-> 0, fragment |-> "{"], [index |-> 1, fragment |-> "}"],
                       [index |-> 0, fragment |-> "}"]>>
    /\ Len(gen.yielded) = 2
    /\ gen.yielded[1].kind = "text"
    /\ gen.yielded[2].kind = "functionCalls"
    /\ Len(gen.yielded[2].calls) = 1

\* ================================================== AIChatbot: sessions

\* A message of a session.
Message(role, text, toolCalls, toolCallId) ==
    [role |-> role, text |-> text, toolCalls |-> toolCalls, toolCallId |-> toolCallId]

\* The greeting a new session starts with.
Welcome == Message("model", "welcome", <<>>, 0)

\* A session: its id is session_<Date.now()>, written as the time it was
\* made, which is also its createdAt.
NewSession(id) == [id |-> id, createdAt |-> id, messages |-> <<Welcome>>]

NoSessions == [i \in {} |-> 0]
NoGens == [g \in {} |-> 0]

WithSession(sessions, s) ==
    [i \in DOMAIN sessions \cup {s.id} |-> IF i = s.id THEN s ELSE sessions[i]]

WithoutSession(sessions, id) == [i \in DOMAIN sessions \ {id} |-> sessions[i]]

\* The component state: activeSessionId 0 is null, abortControllerRef 0 is
\* null, clock is the last value Date.now() gave a session.
BotState(sessions, active, clock) ==
    [op |-> "chat", sessions |-> sessions, activeSessionId |-> active, clock |-> clock,
     isLoading |-> FALSE, abortControllerRef |-> 0, gens |-> NoGens, rounds |-> 0,
     last |-> [op |-> "mount", id |-> 0]]

\* What the init effect finds: nothing, or two sessions from the cloud
\* (active: the first of the list) or from localStorage (active: the last
\* active one when it is there, else the newest).
StoredSessions == WithSession(WithSession(NoSessions, NewSession(1)), NewSession(2))

\* A choice that takes no session.
NoSession(sessions, ids) == 0

\* ids.sort((a, b) => createdAt(b) - createdAt(a))[0]
NewestOf(sessions, ids) ==
    CHOOSE i \in ids : \A j \in ids : sessions[j].createdAt <= sessions[i].createdAt

\* The init effect, to its end.
ChatMount(found, active) ==
    /\ bot = Idle
    /\ bot' = IF found
              THEN BotState(StoredSessions,
                            IF active \in DOMAIN StoredSessions THEN active
                            ELSE NewestOf(StoredSessions, DOMAIN StoredSessions), 2)
              ELSE BotState(WithSession(NoSessions, NewSession(1)), 1, 1)
    /\ UNCHANGED <<appVars, herb, tool, cloud, calc, gen>>

\* createNewSession
CreateNewSession ==
    /\ bot # Idle /\ bot.clock < MaxSessions
    /\ LET newId == bot.clock + 1
       IN bot' = [bot EXCEPT
                    !.clock = newId,
                    !.sessions = WithSession(@, NewSession(newId)),
                    !.activeSessionId = newId,
                    !.last = [op |-> "create", id |-> newId]]
    /\ UNCHANGED <<appVars, herb, tool, cloud, calc, gen>>

\* The session list: setActiveSessionId(session.id)
SelectSession(id) ==
    /\ bot # Idle /\ id \in DOMAIN bot.sessions
    /\ bot' = [bot EXCEPT !.activeSessionId = id, !.last = [op |-> "select", id |-> id]]
    /\ UNCHANGED <<appVars, herb, tool, cloud, calc, gen>>

\* deleteSession, confirmed.
DeleteSession(id) ==
    /\ bot # Idle /\ id \in DOMAIN bot.sessions
    /\ (DOMAIN bot.sessions = {id}) => bot.clock < MaxSessions
    /\ LET next == WithoutSession(bot.sessions, id)
           newId == bot.clock + 1
       IN bot' =
            IF bot.activeSessionId # id
            THEN [bot EXCEPT !.sessions = next, !.last = [op |-> "delete", id |-> id]]
            ELSE IF DOMAIN next # {}
            THEN [bot EXCEPT !.sessions = next,
                             !.activeSessionId = NewestOf(next, DOMAIN next),
                             !.last = [op |-> "delete", id |-> id]]
            ELSE [bot EXCEPT !.sessions = WithSession(next, NewSession(newId)),
                             !.activeSessionId = newId,
                             !.clock = newId,
                             !.last = [op |-> "delete", id |-> id]]
    /\ UNCHANGED <<appVars, herb, tool, cloud, calc, gen>>

NextSessions ==
    \/ \E found \in BOOLEAN, active \in 0..2 : ChatMount(found, active)
    \/ CreateNewSession
    \/ \E id \in 1..MaxSessions : SelectSession(id)
    \/ \E id \in 1..MaxSessions : DeleteSession(id)

SpecSessions == Init /\ [][NextSessions]_vars

\* C18: once the chat component is initialized, after createNewSession and
\* deleteSession calls the session map is not empty and activeSessionId is
\* the id of a session in it; deleting a session that is not the active one
\* leaves activeSessionId as it was; deleting the only session leaves one
\* new session, which is the active one.
C18_ActiveSessionExists ==
    [][bot' # Idle
       => /\ DOMAIN bot'.sessions # {}
          /\ bot'.activeSessionId \in DOMAIN bot'.sessions
          /\ (bot # Idle /\ bot'.last.op = "delete")
             => /\ bot'.last.id \notin DOMAIN bot'.sessions
                /\ bot.activeSessionId # bot'.last.id
                   => bot'.activeSessionId = bot.activeSessionId
                /\ DOMAIN bot.sessions = {bot'.last.id}
                   => /\ Cardinality(DOMAIN bot'.sessions) = 1
                      /\ DOMAIN bot'.sessions \cap DOMAIN bot.sessions = {}
                      /\ bot'.sessions[bot'.activeSessionId].messages = <<Welcome>>]_vars

\* The only session, made by createNewSession, was deleted; a new one is active.
C18_Witness ==
    /\ bot # Idle
    /\ bot.last = [op |-> "delete", id |-> 3]
    /\ DOMAIN bot.sessions = {4}
    /\ bot.activeSessionId = 4

\* ============================================== AIChatbot: runGeneration

\* The locals of a runGeneration call: the session, the history it was
\* given, fullText ("" or "t") and whether its signal is aborted.
NewGen(sessionId, history) ==
    [session |-> sessionId, history |-> history, fullText |-> "", aborted |-> FALSE]

LiveGens(b) == {g \in DOMAIN b.gens : ~b.gens[g].aborted}

\* An aborted fetch or read rejects at once: its catch and finally run
\* before the next event.
NoChatMicrotask == bot # Idle /\ \A g \in DOMAIN bot.gens : ~bot.gens[g].aborted

WithGen(gens, g, rec) == [i \in DOMAIN gens \cup {g} |-> IF i = g THEN rec ELSE gens[i]]
WithoutGen(gens, g) == [i \in DOMAIN gens \ {g} |-> gens[i]]

\* setSessions(prev => ... messages ...) on the session id.
SetMessages(b, id, messages) ==
    [b EXCEPT !.sessions[id].messages = messages]

\* The last message of a sequence with its text replaced.
WithLastText(messages, text) ==
    [messages EXCEPT ![Len(messages)].text = text]

Placeholder == Message("model", "", <<>>, 0)

\* A guard that lets every handler start.
StartAnyway(b) == TRUE

\* if (!activeSessionId || isLoading) return  /  if (!input.trim() || isLoading) return
CanStart(b) == ~b.isLoading

\* runGeneration up to its first await: isLoading, a new controller in
\* abortControllerRef, the placeholder appended to the session.
RunGeneration(b, sessionId, history, op, detail) ==
    LET g == b.rounds + 1
    IN [SetMessages(b, sessionId, Append(b.sessions[sessionId].messages, Placeholder))
          EXCEPT !.rounds = g,
                 !.isLoading = TRUE,
                 !.abortControllerRef = g,
                 !.gens = WithGen(@, g, NewGen(sessionId, history)),
                 !.last = [op |-> op, id |-> g, after |-> b.last.op, calls |-> detail]]

\* The finally block: setIsLoading(false); abortControllerRef.current = null.
Finally(b, g, op, detail) ==
    [b EXCEPT !.isLoading = FALSE,
              !.abortControllerRef = 0,
              !.gens = WithoutGen(@, g),
              !.last = [op |-> op, id |-> g, after |-> b.last.op, calls |-> detail]]

ActiveMessages(b) == b.sessions[b.activeSessionId].messages

UserMsg(text) == Message("user", text, <<>>, 0)

\* handleSend with a message typed, and handleContinue.
HandleSend(text) ==
    /\ NoChatMicrotask
    /\ CanStart(bot) /\ bot.rounds < MaxRounds
    /\ LET currentHistory == Append(ActiveMessages(bot), UserMsg(text))
       IN bot' = RunGeneration(SetMessages(bot, bot.activeSessionId, currentHistory),
                               bot.activeSessionId, currentHistory,
                               IF text = "continue" THEN "continue" ELSE "send", <<>>)
    /\ UNCHANGED <<appVars, herb, tool, cloud, calc, gen>>

\* handleRegenerate(index): the messages up to a user message, or before a
\* message of another role.
HandleRegenerate(index) ==
    /\ NoChatMicrotask
    /\ CanStart(bot) /\ bot.rounds < MaxRounds
    /\ index \in 1..Len(ActiveMessages(bot))
    /\ LET currentMessages == ActiveMessages(bot)
           newHistory == IF currentMessages[index].role = "user"
                         THEN SubSeq(currentMessages, 1, index)
                         ELSE SubSeq(currentMessages, 1, index - 1)
       IN bot' = RunGeneration(SetMessages(bot, bot.activeSessionId, newHistory),
                               bot.activeSessionId, newHistory, "regenerate", <<>>)
    /\ UNCHANGED <<appVars, herb, tool, cloud, calc, gen>>

\* handleStop
HandleStop ==
    /\ NoChatMicrotask
    /\ bot.abortControllerRef # 0
    /\ bot' = [bot EXCEPT
                 !.gens = IF bot.abortControllerRef \in DOMAIN @
                          THEN [@ EXCEPT ![bot.abortControllerRef].aborted = TRUE]
                          ELSE @,
                 !.abortControllerRef = 0,
                 !.isLoading = FALSE,
                 !.last = [op |-> "stop", id |-> bot.abortControllerRef,
                           after |-> bot.last.op, calls |-> <<>>]]
    /\ UNCHANGED <<appVars, herb, tool, cloud, calc, gen>>

\* The aborted request rejects with AbortError: catch, then finally.
ChatAbortSettle(g) ==
    /\ bot # Idle /\ g \in DOMAIN bot.gens /\ bot.gens[g].aborted
    /\ bot' = Finally(bot, g, "aborted", <<>>)
    /\ UNCHANGED <<appVars, herb, tool, cloud, calc, gen>>

\* The stream yields text: the last message of the session shows fullText.
ChatText(g) ==
    /\ NoChatMicrotask
    /\ g \in DOMAIN bot.gens /\ bot.gens[g].fullText = ""
    /\ LET sid == bot.gens[g].session
       IN bot' = [SetMessages(bot, sid, WithLastText(bot.sessions[sid].messages, "t"))
                    EXCEPT !.gens[g].fullText = "t",
                           !.last = [op |-> "text", id |-> g, after |-> bot.last.op,
                                     calls |-> <<>>]]
    /\ UNCHANGED <<appVars, herb, tool, cloud, calc, gen>>

\* The catch block on an error that is no abort: the error text is added to
\* the last message of the session.
CatchError(b, g) ==
    LET sid == b.gens[g].session
        msgs == b.sessions[sid].messages
    IN SetMessages(b, sid, WithLastText(msgs, IF msgs[Len(msgs)].text = "" THEN "error"
                                               ELSE "text and error"))

\* fetch or the stream fails with an error that is no abort.
ChatFail(g) ==
    /\ NoChatMicrotask
    /\ g \in DOMAIN bot.gens
    /\ bot' = Finally(CatchError(bot, g), g, "fail", <<>>)
    /\ UNCHANGED <<appVars, herb, tool, cloud, calc, gen>>

\* The tool loop of runGeneration on the calls of a response, by the
\* iteration modelled above.
RECURSIVE RunTools(_)
RunTools(g) ==
    IF g.pc = "failed" \/ g.todo = <<>> THEN g
    ELSE RunTools(Dispatch(g, Head(g.todo)))

ToolLoop(calls) ==
    RunTools([op |-> "tools", pc |-> "loop", raw |-> calls, todo |-> calls,
              invoked |-> <<>>, results |-> <<>>])

\* toolMsg of each result, in the order of the loop.
ToolMessages(results) ==
    [k \in 1..Len(results) |-> Message("tool", results[k].text, <<>>, results[k].id)]

\* The stream ends without tool calls: the generation is over.
ChatResponseEnd(g) ==
    /\ NoChatMicrotask
    /\ g \in DOMAIN bot.gens
    /\ bot' = Finally(bot, g, "end", <<>>)
    /\ UNCHANGED <<appVars, herb, tool, cloud, calc, gen>>

\* The stream ends with tool calls: the assistant message takes the place
\* of the placeholder, each tool is run and its result appended, and
\* runGeneration is called with nextHistory; a TypeError in the loop goes to
\* the catch block instead.
ChatToolCalls(g, calls) ==
    /\ NoChatMicrotask
    /\ g \in DOMAIN bot.gens
    /\ bot.rounds < MaxRounds
    /\ LET sid == bot.gens[g].session
           assistantMsg == Message("model", bot.gens[g].fullText, calls, 0)
           replaced == [bot.sessions[sid].messages EXCEPT
                          ![Len(bot.sessions[sid].messages)] = assistantMsg]
           loop == ToolLoop(calls)
           toolMsgs == ToolMessages(loop.results)
           nextHistory == Append(bot.gens[g].history, assistantMsg) \o toolMsgs
           shown == SetMessages(bot, sid, replaced \o toolMsgs)
       IN bot' = IF loop.pc = "failed"
                 THEN Finally(CatchError(shown, g), g, "tools", calls)
                 ELSE RunGeneration([shown EXCEPT !.gens = WithoutGen(@, g)],
                                    sid, nextHistory, "tools", calls)
    /\ UNCHANGED <<appVars, herb, tool, cloud, calc, gen>>

\* The calls a response can carry, as generateChatStream yields them: a
\* tool with a callback and an unknown one, with arguments null or an object.
ChatCalls ==
    UNION {[1..n -> [id : {1}, name : {"update_prescription", "other_tool"},
                     args : {"null", "objectA"}]] :
             n \in 1..MaxCalls}

\* The ids the model gives the calls of a response: their positions.
Numbered(calls) == [k \in DOMAIN calls |-> [calls[k] EXCEPT !.id = k]]

NextChat ==
    \/ \E found \in BOOLEAN, active \in 0..2 : ChatMount(found, active)
    \/ \E text \in {"u", "continue"} : HandleSend(text)
    \/ \E index \in 1..3 : HandleRegenerate(index)
    \/ HandleStop
    \/ \E g \in 1..MaxRounds : ChatAbortSettle(g)
    \/ \E g \in 1..MaxRounds : ChatText(g)
    \/ \E g \in 1..MaxRounds : ChatFail(g)
    \/ \E g \in 1..MaxRounds : ChatResponseEnd(g)
    \/ \E g \in 1..MaxRounds, calls \in ChatCalls : ChatToolCalls(g, Numbered(calls))

SpecChat == Init /\ [][NextChat]_vars

\* The assistant message that carries the calls.
IsAssistant(m, calls) == m.role = "model" /\ m.toolCalls = calls

\* The tool-result message of the call.
IsResult(m, call) == m.role = "tool" /\ m.toolCallId = call.id

\* The messages from position p on are the assistant message of the calls
\* and then one result per call, in call order.
CallsThenResults(messages, p, calls) ==
    /\ Len(messages) >= p + Len(calls)
    /\ IsAssistant(messages[p], calls)
    /\ \A k \in 1..Len(calls) : IsResult(messages[p + k], calls[k])

\* C15: when a response ends with tool calls, the session gets, in place of
\* the placeholder, the assistant message with those calls and then one
\* tool-result message per call with the id of the call, in call order, and
\* the follow-up request is sent with the previous history followed by
\* exactly those messages.
C15_ToolRoundMessages ==
    [][bot # Idle
       => \A g \in DOMAIN bot.gens :
            (bot'.last.op = "tools" /\ g \notin DOMAIN bot'.gens)
            => LET calls == bot'.last.calls
                   sid == bot.gens[g].session
                   shown == bot'.sessions[sid].messages
                   kept == Len(bot.sessions[sid].messages) - 1
                   h0 == bot.gens[g].history
               IN /\ SubSeq(shown, 1, kept) = SubSeq(bot.sessions[sid].messages, 1, kept)
                  /\ CallsThenResults(shown, kept + 1, calls)
                  /\ Len(shown) = kept + 1 + Len(calls) + 1
                  /\ \E g2 \in DOMAIN bot'.gens \ DOMAIN bot.gens :
                       LET h == bot'.gens[g2].history
                       IN /\ Len(h) = Len(h0) + 1 + Len(calls)
                          /\ SubSeq(h, 1, Len(h0)) = h0
                          /\ CallsThenResults(h, Len(h0) + 1, calls)]_vars

\* C19: in the chat component at most one generation is in flight; while
\* one is, isLoading is true and abortControllerRef holds its controller;
\* after handleStop none is in flight.
C19_OneChatGeneration ==
    bot # Idle
    => /\ Cardinality(LiveGens(bot)) <= 1
       /\ \A g \in LiveGens(bot) : bot.isLoading /\ bot.abortControllerRef = g
       /\ bot.last.op = "stop" => LiveGens(bot) = {}

\* A message sent right after the stop of a tool follow-up round.
C19_Witness ==
    /\ bot # Idle
    /\ bot.last.op = "send" /\ bot.last.after = "aborted"
    /\ bot.rounds = 3
    /\ LiveGens(bot) = {3}
    /\ \E k \in 1..Len(bot.gens[3].history) : bot.gens[3].history[k].role = "tool"

\* ================================ generateChatStream: building the request

MaxHistory == 4

MAX_CONTEXT_CHARS == 50000

\* An OpenAIMessage: its role, the number of characters of its content as
\* JSON writes it, and, for the compression note, the number its text states
\* (0 for every other message).
ChatMessage(role, chars) == [role |-> role, chars |-> chars, note |-> 0]

RoleChars(role) ==
    IF role = "user" THEN 4 ELSE IF role = "system" THEN 6 ELSE 9

\* JSON.stringify(message).length: braces, the two keys, quotes, colons and
\* the comma around the role and the content.
JsonLength(m) == 24 + RoleChars(m.role) + m.chars

RECURSIVE SumLength(_)
SumLength(list) ==
    IF list = <<>> THEN 0 ELSE JsonLength(Head(list)) + SumLength(Tail(list))

\* JSON.stringify(list).length: brackets, the messages and the commas
\* between them.
JsonArrayLength(list) ==
    2 + SumLength(list) + (IF list = <<>> THEN 0 ELSE Len(list) - 1)

\* currentLength of the history under the system message.
ContextLength(history, systemMsg) ==
    JsonArrayLength(SubSeq(history, 1, Len(history) - 1))
      + JsonLength(systemMsg) + JsonLength(history[Len(history)])

\* A budget test that lets the sum reach the budget.
FitsAtBudget(accumulatedLen, msgLen) ==
    accumulatedLen + msgLen <= (MAX_CONTEXT_CHARS * 6) \div 10

\* accumulatedLen + msgLen < (MAX_CONTEXT_CHARS * 0.6)
Fits(accumulatedLen, msgLen) ==
    accumulatedLen + msgLen < (MAX_CONTEXT_CHARS * 6) \div 10

\* The reverse loop from index i: unshift while the message fits, break at
\* the first that does not.
RECURSIVE RetainFrom(_, _, _, _)
RetainFrom(previousHistory, i, retainedMessages, accumulatedLen) ==
    IF i = 0 THEN retainedMessages
    ELSE LET msgLen == JsonLength(previousHistory[i])
         IN IF Fits(accumulatedLen, msgLen)
            THEN RetainFrom(previousHistory, i - 1,
                            <<previousHistory[i]>> \o retainedMessages,
                            accumulatedLen + msgLen)
            ELSE retainedMessages

CompressionNote(removed) == [role |-> "system", chars |-> 0, note |-> removed]

\* A history that ends with the note.
NoteAtEnd(compressionNote, retainedMessages) ==
    retainedMessages \o <<compressionNote>>

\* [compressionNote, ...retainedMessages]
Compressed(compressionNote, retainedMessages) ==
    <<compressionNote>> \o retainedMessages

\* processedHistory of the previous history under the system message and
\* the last message.
ProcessedHistory(history, systemMsg) ==
    LET previousHistory == SubSeq(history, 1, Len(history) - 1)
    IN IF ContextLength(history, systemMsg) > MAX_CONTEXT_CHARS
       THEN LET retainedMessages ==
                    RetainFrom(previousHistory, Len(previousHistory), <<>>, 0)
            IN IF Len(retainedMessages) < Len(previousHistory)
               THEN Compressed(CompressionNote(Len(previousHistory)
                                                 - Len(retainedMessages)),
                               retainedMessages)
               ELSE retainedMessages
       ELSE previousHistory

\* Contents of 9972, 19971 and 29972 characters: user messages of 10000,
\* 19999 and 30000 characters of JSON.
ContentSizes == {9972, 19971, 29972}

\* System messages of 29998, 29999 and 50030 characters of JSON.
SystemSizes == {29968, 29969, 50000}

HistoryMessages ==
    {ChatMessage(role, chars) : role \in {"user", "assistant"}, chars \in ContentSizes}

Histories == UNION {[1..n -> HistoryMessages] : n \in 1..MaxHistory}

\* generateChatStream up to its fetch on a history that has a last message:
\* messages = [systemMsg, ...processedHistory, lastUserMsg].
ChatRequestBuild ==
    /\ gen = Idle
    /\ \E history \in Histories, chars \in SystemSizes :
         LET systemMsg == ChatMessage("system", chars)
         IN gen' = [op |-> "chatRequest", pc |-> "built", history |-> history,
                    systemMsg |-> systemMsg,
                    messages |-> <<systemMsg>> \o ProcessedHistory(history, systemMsg)
                                   \o <<history[Len(history)]>>]
    /\ UNCHANGED <<appVars, herb, tool, cloud, calc, bot>>

\* On an empty history lastUserMsg is undefined and JSON.stringify of it has
\* no length: a TypeError before any request is built.
ChatRequestThrow(systemMsg) ==
    /\ gen = Idle
    /\ gen' = [op |-> "chatRequest", pc |-> "thrown", history |-> <<>>,
               systemMsg |-> systemMsg, messages |-> <<>>]
    /\ UNCHANGED <<appVars, herb, tool, cloud, calc, bot>>

\* The call is over.
ChatRequestDone ==
    /\ gen # Idle /\ gen.op = "chatRequest"
    /\ gen' = Idle
    /\ UNCHANGED <<appVars, herb, tool, cloud, calc, bot>>

NextRequest ==
    \/ ChatRequestBuild
    \/ \E chars \in SystemSizes : ChatRequestThrow(ChatMessage("system", chars))
    \/ ChatRequestDone

SpecRequest == Init /\ [][NextRequest]_vars

RequestBuilt == gen # Idle /\ gen.op = "chatRequest" /\ gen.pc = "built"

\* What a built request carries between the system message and the last
\* message.
SentHistory == SubSeq(gen.messages, 2, Len(gen.messages) - 1)

HasNote == SentHistory # <<>> /\ SentHistory[1].note > 0

\* The prior messages of the request: what is sent apart from the note.
SentPrior == IF HasNote THEN Tail(SentHistory) ELSE SentHistory

PriorHistory == SubSeq(gen.history, 1, Len(gen.history) - 1)

\* C16: a built request starts with the system message and ends with the
\* last message of the history it was given, and when prior messages were
\* removed the compression note comes right after the system message.
C16_SystemFirstLastMessageLast ==
    RequestBuilt
    => /\ Len(gen.messages) >= 2
       /\ gen.messages[1] = gen.systemMsg
       /\ gen.messages[Len(gen.messages)] = gen.history[Len(gen.history)]
       /\ Len(SentPrior) < Len(PriorHistory)
            => /\ gen.messages[2].role = "system"
               /\ gen.messages[2].note > 0

\* A request from which one prior message was removed and two were kept.
C16_Witness ==
    /\ RequestBuilt
    /\ Len(PriorHistory) = 3
    /\ Len(gen.messages) = 5
    /\ gen.messages[2].note = 1

\* The first index k such that the prior messages from k on have fewer than
\* 30,000 characters of JSON in all.
FirstKept(prior) ==
    CHOOSE k \in 1..Len(prior) + 1 :
        /\ SumLength(SubSeq(prior, k, Len(prior))) < 30000
        /\ \A j \in 1..k - 1 : SumLength(SubSeq(prior, j, Len(prior))) >= 30000

\* C17: a context of at most 50,000 characters is sent with its prior
\* history unchanged; a longer one is sent with the longest run of the most
\* recent prior messages whose lengths add up to less than 30,000, in their
\* order, and a compression note states the number of messages removed.
C17_PruneToRecentSuffix ==
    RequestBuilt
    => LET context == ContextLength(gen.history, gen.systemMsg)
       IN /\ context <= 50000 => SentHistory = PriorHistory
          /\ context > 50000
               => /\ SentPrior = SubSeq(PriorHistory, FirstKept(PriorHistory),
                                        Len(PriorHistory))
                  /\ HasNote => SentHistory[1].note
                                  = Len(PriorHistory) - Len(SentPrior)

\* A pruned request whose kept messages, with the newest one removed, would
\* have come to exactly 30,000 characters.
C17_Witness ==
    /\ RequestBuilt
    /\ ContextLength(gen.history, gen.systemMsg) > 50000
    /\ HasNote
    /\ SentPrior # <<>>
    /\ SumLength(SentPrior)
         + JsonLength(PriorHistory[Len(PriorHistory) - Len(SentPrior)]) = 30000

====
